---- MODULE Spec2Model ----
(***************************************************************************)
(* A model of fintrend-backend: the analytics engine                       *)
(* (src/analytics/engine.py) with its ticker extractor, breakout job,      *)
(* per-stock analysis and LLM call wrapper, and the services behind the    *)
(* HTTP endpoints (src/main.py, src/routers, src/services).                *)
(*                                                                         *)
(* Each part has its own specification over the shared variables; a        *)
(* part's specification leaves the other parts' variables at their         *)
(* initial values.                                                         *)
(*   SpecExtract   _get_trending_tickers as shipped, from the post titles  *)
(*   SpecFilter    lines 564-582 of _get_trending_tickers, from the set    *)
(*                 of extracted tokens                                     *)
(*   SpecBreakout  find_breakout_stocks, called by two callers, from the   *)
(*                 list the extractor returned                             *)
(*   SpecAnalyze   analyze_stock and analyze_watchlist_stocks, with the    *)
(*                 LLMAgent methods they call                              *)
(*   SpecWatchlist the watchlist endpoints over WatchlistService           *)
(*   SpecNews      StockNewsService.get_stocks_news, from its arguments    *)
(*                 and what the three providers do                         *)
(*   SpecBreakoutPosts  RedditService.get_breakout_posts, from its         *)
(*                 arguments and the listings of the subreddits            *)
(*   SpecCandidates  StockAnalysisService.analyze_breakout_candidates,     *)
(*                 from the posts and what the LLM does                    *)
(*   SpecData      analyze_data, from the data items                       *)
(***************************************************************************)
EXTENDS Naturals, Integers, Sequences, FiniteSets, Bags, TLC

VARIABLES
    gt_pc,        \* position in _get_trending_tickers: "scan", "filter", "done"
    titles,       \* the titles of the hot posts, in the order they are read
    hot_ok,       \* number of posts the Reddit listing yields before it raises
    trending,     \* trending_tickers (a set) at line 564
    set_order,    \* the order in which the set comprehension of line 568 iterates
    quote_pat,    \* what yf.Ticker(t).info does, by the ticker's class
    filtered,     \* filtered_tickers (a list), line 568
    gt_i,         \* position of the validation loop in its list, line 573
    gt_result     \* validated_tickers, the lookups made, and whether the run raised

gt_vars == <<gt_pc, titles, hot_ok, trending, set_order, quote_pat, filtered, gt_i, gt_result>>

VARIABLES
    clock,        \* the calendar day datetime.now().date() reads
    recs,         \* the committed BreakoutRecommendation rows (a bag: the table has
                  \* no unique constraint); each row is tagged with the run that wrote it
    fb,           \* per caller of find_breakout_stocks: the position and the locals of
                  \* its invocation, the LLM calls it made and how it ended
    runs_started, \* invocations of find_breakout_stocks started so far
    overlapped    \* whether an invocation has started while another was running

fb_vars == <<clock, recs, fb, runs_started, overlapped>>

VARIABLES
    analyses,     \* the committed StockAnalysis rows (a bag: no unique constraint), each
                  \* tagged with the call of analyze_stock that wrote it
    an,           \* the call of analyze_stock in progress: its position, its locals,
                  \* the LLM call in progress, and how the last call ended
    calls_started,\* calls of analyze_stock made so far
    watchlist,    \* the ticker column of the Watchlist table
    wl_todo       \* analyze_watchlist_stocks: the tickers its loop has still to pass

an_vars == <<analyses, an, calls_started, watchlist, wl_todo>>

VARIABLES
    stocks,       \* WatchlistService._stocks of the instance src/main.py creates
    router_stocks,\* WatchlistService._stocks of the instance src/routers/stock_data.py
                  \* creates
    reply,        \* the HTTP request served last, and its reply
    svc_call      \* a call of a service function: the function, its arguments, what
                  \* its collaborators did, and what it returned

sv_vars == <<stocks, router_stocks, reply, svc_call>>

vars == <<gt_vars, fb_vars, an_vars, sv_vars>>

\* The services of src/services and src/app/services before any request.
NoReply == [op |-> "none", symbol |-> <<>>, raised |-> "", status |-> 0, body |-> {}]

NoCall == [fn |-> "none"]

ServicesIdle ==
    /\ stocks = {}
    /\ router_stocks = {}
    /\ reply = NoReply
    /\ svc_call = NoCall

(***************************************************************************)
(* Bounds                                                                  *)
(***************************************************************************)
MaxTitles == 2      \* posts read in one run
MaxCand == 52       \* bulk candidates in trending_tickers (more than the cap)
MaxRuns == 2        \* invocations of find_breakout_stocks in one behaviour
MaxCandidates == 2  \* candidates in one LLM response
MaxDay == 2         \* calendar days
MaxTrending == 21      \* tickers in the longest list the extractor returns
MaxCalls == 2       \* calls of analyze_stock in one behaviour

(***************************************************************************)
(* The module namespace of engine.py.  Lines 2-12 import os, pandas,       *)
(* yfinance, praw, requests, datetime, logging, sqlalchemy, typing, json   *)
(* and time.  The name re is bound nowhere in the module.                  *)
(***************************************************************************)
ModuleImports ==
    {"os", "pd", "yf", "praw", "requests", "datetime", "timedelta", "logging",
     "Session", "List", "Dict", "Any", "Tuple", "Optional", "json", "time"}

(***************************************************************************)
(* Tickers.  Universe lists every ticker string of the model; a ticker's   *)
(* position decides its class for the price lookup.                        *)
(***************************************************************************)
common_words == {"THE", "AND", "FOR", "THIS", "THAT", "WITH", "FROM", "WHAT", "HAVE"}
known_etfs == {"SPY", "QQQ", "IWM", "DIA", "VTI"}

Named == <<"GME", "AAPL", "GOOGL", "THE", "SPY", "HAVE", "VTI">>

Bulk ==
    <<"ZAA", "ZAB", "ZAC", "ZAD", "ZAE", "ZAF", "ZAG", "ZAH", "ZAI", "ZAJ",
      "ZBA", "ZBB", "ZBC", "ZBD", "ZBE", "ZBF", "ZBG", "ZBH", "ZBI", "ZBJ",
      "ZCA", "ZCB", "ZCC", "ZCD", "ZCE", "ZCF", "ZCG", "ZCH", "ZCI", "ZCJ",
      "ZDA", "ZDB", "ZDC", "ZDD", "ZDE", "ZDF", "ZDG", "ZDH", "ZDI", "ZDJ",
      "ZEA", "ZEB", "ZEC", "ZED", "ZEE", "ZEF", "ZEG", "ZEH", "ZEI", "ZEJ",
      "ZFA", "ZFB", "ZFC", "ZFD", "ZFE", "ZFF", "ZFG", "ZFH", "ZFI", "ZFJ">>

Universe == Named \o Bulk

IndexOf(t) == CHOOSE i \in 1..Len(Universe) : Universe[i] = t

Range(s) == {s[i] : i \in 1..Len(s)}

Reverse(s) == [i \in 1..Len(s) |-> s[Len(s) + 1 - i]]

Take(s, n) == IF Len(s) <= n THEN s ELSE SubSeq(s, 1, n)

(***************************************************************************)
(* list(a set): Python fixes no iteration order for a set of strings; two  *)
(* orders stand for it.                                                    *)
(***************************************************************************)
SetOrders == {"asc", "desc"}

ListOf(S, order) ==
    LET asc == SelectSeq(Universe, LAMBDA t : t \in S)
    IN  IF order = "asc" THEN asc ELSE Reverse(asc)

(***************************************************************************)
(* yf.Ticker(t).info: a mapping with the key regularMarketPrice ("quote"), *)
(* a mapping without it ("noquote"), or an exception ("raise").            *)
(***************************************************************************)
QuoteOutcomes == {"quote", "noquote", "raise"}

QuotePatterns == [0..2 -> QuoteOutcomes]

StockInfo(pat, t) == pat[IndexOf(t) % 3]

(***************************************************************************)
(* Post titles.  A title is a sequence of tokens; a token carries what the *)
(* two regular expressions of lines 553 and 556 read of it: whether it is  *)
(* written with a leading $, its letters, how many they are, whether all   *)
(* are capitals, and str.upper() of all of them and of the first five.     *)
(***************************************************************************)
Tok(d, txt, n, caps, up, up5) ==
    [dollar |-> d, text |-> txt, len |-> n, caps |-> caps, upper |-> up, upper5 |-> up5]

TitleCatalogue ==
    { <<Tok(FALSE, "GME", 3, TRUE, "GME", "GME"), Tok(FALSE, "to", 2, FALSE, "TO", "TO"),
        Tok(FALSE, "THE", 3, TRUE, "THE", "THE"), Tok(FALSE, "Moon", 4, FALSE, "MOON", "MOON")>>,
      <<Tok(TRUE, "AAPL", 4, TRUE, "AAPL", "AAPL"), Tok(FALSE, "THE", 3, TRUE, "THE", "THE")>>,
      <<Tok(TRUE, "spy", 3, FALSE, "SPY", "SPY"),
        Tok(FALSE, "STONKS", 6, TRUE, "STONKS", "STONK")>>,
      <<Tok(TRUE, "GOOGLE", 6, TRUE, "GOOGLE", "GOOGL"), Tok(FALSE, "AI", 2, TRUE, "AI", "AI")>>,
      <<Tok(FALSE, "GME", 3, TRUE, "GME", "GME"), Tok(TRUE, "AAPL", 4, TRUE, "AAPL", "AAPL"),
        Tok(FALSE, "THE", 3, TRUE, "THE", "THE")>>,
      <<Tok(FALSE, "hello", 5, FALSE, "HELLO", "HELLO")>> }

\* line 553: [match[1:].upper() for match in re.findall(r'\$[A-Za-z]{1,5}', title)]
dollar_tickers(title) ==
    {title[i].upper5 : i \in {j \in 1..Len(title) : title[j].dollar /\ title[j].len >= 1}}

\* line 556: [word.upper() for word in re.findall(r'\b[A-Z]{3,5}\b', title)]
word_tickers(title) ==
    {title[i].upper :
        i \in {j \in 1..Len(title) : title[j].caps /\ title[j].len >= 3 /\ title[j].len <= 5}}

(***************************************************************************)
(* Lines 543-562: the loop over the hot posts, inside one try.  n posts    *)
(* are read before the listing raises (n = Len(ts): it does not raise).    *)
(* The first evaluation of re.findall looks the global name re up; when    *)
(* the module does not bind it, a NameError leaves the loop at the first   *)
(* post, before any update of the set, and line 561 catches it.            *)
(***************************************************************************)
RECURSIVE ScanPosts(_, _)
ScanPosts(ts, n) ==
    IF n = 0 \/ ts = <<>> THEN {}
    ELSE IF "re" \notin ModuleImports THEN {}
    ELSE dollar_tickers(Head(ts)) \cup word_tickers(Head(ts)) \cup ScanPosts(Tail(ts), n - 1)

\* filtered_tickers with the test against known_etfs left out
filtered_tickers_NoEtfTest(tt, order) ==
    ListOf({t \in tt : t \notin common_words}, order)

\* lines 568-569
filtered_tickers(tt, order) ==
    ListOf({t \in tt : t \notin common_words /\ t \notin known_etfs}, order)

LookupCap == 50

\* the loop of line 573 without its slice
LookupList_NoCap(list) == list

\* line 573: list(filtered_tickers)[:50]
LookupList(list) == Take(list, LookupCap)

(***************************************************************************)
(* Lines 574-579: one pass of the validation loop for ticker t.  acc is    *)
(* the state of the run: the tickers kept so far, the tickers looked up,   *)
(* and whether an exception has left the function.                         *)
(***************************************************************************)
ValidateOne_NoExcept(acc, t, pat) ==
    LET looked == [acc EXCEPT !.lookups = Append(@, t)]
    IN  CASE StockInfo(pat, t) = "raise" -> [looked EXCEPT !.raised = TRUE]
          [] StockInfo(pat, t) = "quote" -> [looked EXCEPT !.validated = Append(@, t)]
          [] OTHER -> looked

ValidateOne(acc, t, pat) ==
    LET looked == [acc EXCEPT !.lookups = Append(@, t)]
    IN  CASE StockInfo(pat, t) = "raise" -> looked        \* lines 578-579: except: pass
          [] StockInfo(pat, t) = "quote" -> [looked EXCEPT !.validated = Append(@, t)]
          [] OTHER -> looked

NoResult == [validated |-> <<>>, lookups |-> <<>>, raised |-> FALSE]

(***************************************************************************)
(* The store and the invocations of find_breakout_stocks before any run.   *)
(***************************************************************************)
Procs == {1, 2}

IdleRun ==
    [pc |-> "idle", run |-> 0, trending |-> <<>>, handed |-> <<>>, today |-> 0, n |-> 0,
     cand |-> [ticker |-> "", type |-> "", confidence |-> 0],
     llm_calls |-> 0, outcome |-> "none", lost |-> ""]

BreakoutIdle ==
    /\ clock = 1
    /\ recs = EmptyBag
    /\ fb = [p \in Procs |-> IdleRun]
    /\ runs_started = 0
    /\ overlapped = FALSE

(***************************************************************************)
(* analyze_stock before any call.  A result of an LLMAgent method carries, *)
(* besides what the method returned (kind, overall_sentiment,              *)
(* raw_content; overall_sentiment is what .get("overall_sentiment", 0)     *)
(* reads in it), the seconds it slept (waited), the number of HTTP requests the method made and the last  *)
(* response it received.  analyze_stock keeps, of the results of its three *)
(* LLMAgent calls, what its later lines depend on (news, reddit, summary:  *)
(* the kind of value), and the whole result of the latest call (res, with  *)
(* the method called, the number of items it was given and the items its   *)
(* prompt embedded).                                                       *)
(***************************************************************************)
NoLLMResult ==
    [kind |-> "none", overall_sentiment |-> 0, raw_content |-> "", requests |-> 0,
     last |-> "none", waited |-> 0]

NoMethodResult ==
    [fn |-> "", items |-> 0, kind |-> "none", overall_sentiment |-> 0, raw_content |-> "",
     requests |-> 0, last |-> "none", waited |-> 0, prompt |-> <<>>]

NoLLMCall ==
    [retry_count |-> 0, requests |-> 0, last |-> "none", waited |-> 0, prompt |-> <<>>]

IdleCall ==
    [pc |-> "idle", ticker |-> "", today |-> 0, call |-> 0, news_n |-> 0, posts_n |-> 0,
     news |-> "none", reddit |-> "none", summary |-> "none", res |-> NoMethodResult,
     llm |-> NoLLMCall, ret |-> "", exc |-> ""]

AnalyzeIdle ==
    /\ analyses = EmptyBag
    /\ an = IdleCall
    /\ calls_started = 0
    /\ watchlist = <<>>
    /\ wl_todo = <<>>

(***************************************************************************)
(* Actions of _get_trending_tickers                                        *)
(***************************************************************************)
\* lines 540-562
ScanHotPosts ==
    /\ gt_pc = "scan"
    /\ trending' = ScanPosts(titles, hot_ok)
    /\ gt_pc' = "filter"
    /\ UNCHANGED <<titles, hot_ok, set_order, quote_pat, filtered, gt_i, gt_result>>
    /\ UNCHANGED <<fb_vars, an_vars, sv_vars>>

\* lines 564-572
FilterTickers ==
    /\ gt_pc = "filter"
    /\ filtered' = filtered_tickers(trending, set_order)
    /\ gt_i' = 1
    /\ gt_pc' = "validate"
    /\ UNCHANGED <<titles, hot_ok, trending, set_order, quote_pat, gt_result>>
    /\ UNCHANGED <<fb_vars, an_vars, sv_vars>>

\* lines 573-579: one iteration
ValidateStep ==
    /\ gt_pc = "validate"
    /\ gt_i <= Len(LookupList(filtered))
    /\ gt_result' = ValidateOne(gt_result, LookupList(filtered)[gt_i], quote_pat)
    /\ IF gt_result'.raised
       THEN gt_pc' = "done" /\ gt_i' = gt_i
       ELSE gt_pc' = "validate" /\ gt_i' = gt_i + 1
    /\ UNCHANGED <<titles, hot_ok, trending, set_order, quote_pat, filtered>>
    /\ UNCHANGED <<fb_vars, an_vars, sv_vars>>

\* lines 581-582
ReturnValidated ==
    /\ gt_pc = "validate"
    /\ gt_i > Len(LookupList(filtered))
    /\ gt_pc' = "done"
    /\ UNCHANGED <<titles, hot_ok, trending, set_order, quote_pat, filtered, gt_i, gt_result>>
    /\ UNCHANGED <<fb_vars, an_vars, sv_vars>>

TitleSeqs == UNION {[1..n -> TitleCatalogue] : n \in 0..MaxTitles}

InitExtract ==
    /\ BreakoutIdle
    /\ AnalyzeIdle
    /\ ServicesIdle
    /\ gt_pc = "scan"
    /\ titles \in TitleSeqs
    /\ hot_ok \in 0..Len(titles)
    /\ trending = {}
    /\ set_order \in SetOrders
    /\ quote_pat \in QuotePatterns
    /\ filtered = <<>>
    /\ gt_i = 1
    /\ gt_result = NoResult

(***************************************************************************)
(* As shipped, the scan leaves trending_tickers empty, so the validation   *)
(* loop has nothing to iterate over: its body is no step of SpecExtract.   *)
(***************************************************************************)
NextExtract == ScanHotPosts \/ FilterTickers \/ ReturnValidated

SpecExtract == InitExtract /\ [][NextExtract]_vars

(***************************************************************************)
(* Lines 564-582 on their own: trending_tickers is any set of tokens the   *)
(* two regular expressions can produce.                                    *)
(***************************************************************************)
StopSamples == {"THE", "SPY"}

BulkSizes == {0, 1} \cup {n \in 0..MaxCand : n + 2 >= MaxCand}

TrendingSets ==
    {{Bulk[i] : i \in 1..n} \cup S \cup G :
        n \in BulkSizes, S \in SUBSET StopSamples, G \in {{}, {"GME", "AAPL"}}}

InitFilter ==
    /\ BreakoutIdle
    /\ AnalyzeIdle
    /\ ServicesIdle
    /\ gt_pc = "filter"
    /\ titles = <<>>
    /\ hot_ok = 0
    /\ trending \in TrendingSets
    /\ set_order \in SetOrders
    /\ quote_pat \in QuotePatterns
    /\ filtered = <<>>
    /\ gt_i = 1
    /\ gt_result = NoResult

NextFilter == FilterTickers \/ ValidateStep \/ ReturnValidated

SpecFilter == InitFilter /\ [][NextFilter]_vars

(***************************************************************************)
(* find_breakout_stocks (lines 252-335).                                   *)
(*                                                                         *)
(* SpecBreakout runs up to MaxRuns invocations, by two callers that may    *)
(* overlap, against one store.  The value self._get_trending_tickers()     *)
(* returns is drawn from TrendingOutputs, so that the lines after the      *)
(* early return of line 260 are exercised; with the module as shipped the  *)
(* extractor returns the empty list only (SpecExtract).                    *)
(*                                                                         *)
(* The LLM response is read one candidate at a time: its content does not  *)
(* depend on the state of the program, so drawing each candidate when the  *)
(* loop of line 297 reaches it is the same as drawing the list at line 291.*)
(***************************************************************************)
ExtractIdle ==
    /\ gt_pc = "done"
    /\ titles = <<>>
    /\ hot_ok = 0
    /\ trending = {}
    /\ set_order = "asc"
    /\ quote_pat = [k \in 0..2 |-> "quote"]
    /\ filtered = <<>>
    /\ gt_i = 1
    /\ gt_result = NoResult

TrendingOutputs == {<<>>, <<"GME", "AMC">>, [i \in 1..MaxTrending |-> Bulk[i]]}

\* lines 291-293: the first argument of identify_breakout_stocks, which
\* line 146 puts into the prompt
LLMTickers(tt) == tt

\* One entry of breakout_candidates: candidate.get("ticker") ("" stands for a
\* missing or empty ticker), and candidate.get("confidence_score"): the JSON
\* type of the value (a number, the literal true, a string) and the number
\* Python takes it for, in hundredths (0.8, 1.5, and True = 1).
Candidates ==
    { [ticker |-> "GME", type |-> "number", confidence |-> 80],
      [ticker |-> "AMC", type |-> "number", confidence |-> 150],
      [ticker |-> "", type |-> "number", confidence |-> 80],
      [ticker |-> "GME", type |-> "string", confidence |-> 0],
      [ticker |-> "AMC", type |-> "true", confidence |-> 100] }

Running(p) == fb[p].pc \notin {"idle", "returned"}

\* the test of line 258 with its return left out
NoTrendingTickers_Never(tt) == FALSE

\* line 258: if not trending_tickers
NoTrendingTickers(tt) == tt = <<>>

\* line 301: isinstance(v, (int, float)) of a value json.loads produced; in
\* Python bool is a subclass of int
IsIntOrFloat(type) == type \in {"number", "true"}

\* line 301: if not ticker or not isinstance(candidate.get("confidence_score"), (int, float))
SkipCandidate(c) == c.ticker = "" \/ ~IsIntOrFloat(c.type)

\* the query of lines 305-308 with no row ever found
ExistingRecommendation_NeverFound(rows, ticker, today) == FALSE

\* the query of lines 305-308 filtering on the ticker and on the day before today
ExistingRecommendation_Yesterday(rows, ticker, today) ==
    \E r \in BagToSet(rows) : r.ticker = ticker /\ r.date = today - 1

\* lines 305-308: a row with this ticker and this recommendation_date
ExistingRecommendation(rows, ticker, today) ==
    \E r \in BagToSet(rows) : r.ticker = ticker /\ r.date = today

\* lines 319-325; by is no column: it names the run that wrote the row; type
\* is the JSON type of the value that went into confidence_score
Recommendation(c, today, price, run) ==
    [ticker |-> c.ticker, date |-> today, confidence |-> c.confidence, type |-> c.type,
     price |-> price, by |-> run]

QuotePrice == 10    \* a regularMarketPrice

\* lines 315-316: what yf.Ticker(ticker).info does for the tickers of the
\* candidates: the quote of GME has a regularMarketPrice, the quote of AMC
\* has none, and either lookup may raise
InfoOutcomes(ticker) ==
    IF ticker = "GME" THEN {"quote", "raise"} ELSE {"noquote", "raise"}

NoCandidate == [ticker |-> "", type |-> "", confidence |-> 0]

\* the function returns: its frame is gone, what the run did is kept
Return(p, how) ==
    [fb EXCEPT ![p].pc = "returned", ![p].outcome = how, ![p].today = 0, ![p].n = 0,
               ![p].cand = NoCandidate, ![p].trending = <<>>, ![p].handed = <<>>,
               ![p].lost = ""]

\* a caller invokes find_breakout_stocks
StartRun(p) ==
    /\ ~Running(p)
    /\ \A q \in Procs : q < p => Running(q)     \* callers are interchangeable
    /\ runs_started < MaxRuns
    /\ runs_started' = runs_started + 1
    /\ fb' = [fb EXCEPT ![p] = [IdleRun EXCEPT !.pc = "extract", !.run = runs_started + 1]]
    /\ overlapped' = (overlapped \/ \E q \in Procs \ {p} : Running(q))
    /\ UNCHANGED <<clock, recs>>
    /\ UNCHANGED <<gt_vars, an_vars, sv_vars>>

\* lines 256-260
GetTrending(p) ==
    /\ fb[p].pc = "extract"
    /\ \E tt \in TrendingOutputs :
          IF NoTrendingTickers(tt)
          THEN fb' = Return(p, "no_signal")
          ELSE fb' = [fb EXCEPT ![p].pc = "identify", ![p].trending = tt]
    /\ UNCHANGED <<clock, recs, runs_started, overlapped>>
    /\ UNCHANGED <<gt_vars, an_vars, sv_vars>>

\* lines 262-296: the market snapshot (each index in its own try), the query
\* of the latest analysis of each ticker (which may raise to line 334), the LLM
\* call, then today = datetime.now().date().  An LLM call that raises, or a
\* result that is no mapping, ends the run at line 334.  None of these lines
\* writes to the store or reads a BreakoutRecommendation.  trending_tickers
\* is not read after line 293; handed keeps the argument of the LLM call until
\* the loop of line 297 takes its first step.
Identify(p) ==
    /\ fb[p].pc = "identify"
    /\ \E query_ok \in BOOLEAN, usable \in BOOLEAN :
          IF ~query_ok THEN fb' = Return(p, "error")
          ELSE IF usable
          THEN fb' = [fb EXCEPT ![p].pc = "loop", ![p].today = clock,
                                ![p].llm_calls = @ + 1,
                                ![p].handed = LLMTickers(fb[p].trending),
                                ![p].trending = <<>>]
          ELSE fb' = [Return(p, "error") EXCEPT ![p].llm_calls = @ + 1]
    /\ UNCHANGED <<clock, recs, runs_started, overlapped>>
    /\ UNCHANGED <<gt_vars, an_vars, sv_vars>>

\* line 297, the list is exhausted: the function returns
EndOfCandidates(p) ==
    /\ fb[p].pc = "loop"
    /\ fb' = Return(p, "completed")
    /\ UNCHANGED <<clock, recs, runs_started, overlapped>>
    /\ UNCHANGED <<gt_vars, an_vars, sv_vars>>

\* lines 297-311: the next candidate, up to the existence check
NextCandidate(p) ==
    /\ fb[p].pc = "loop"
    /\ fb[p].n < MaxCandidates
    /\ \E c \in Candidates, query_ok \in BOOLEAN :
          LET next == [fb EXCEPT ![p].n = @ + 1, ![p].handed = <<>>, ![p].lost = ""]
          IN  IF SkipCandidate(c) THEN fb' = next
              ELSE IF ~query_ok THEN fb' = Return(p, "error")
              ELSE IF ExistingRecommendation(recs, c.ticker, fb[p].today) THEN fb' = next
              ELSE fb' = [next EXCEPT ![p].pc = "write", ![p].cand = c]
    /\ UNCHANGED <<clock, recs, runs_started, overlapped>>
    /\ UNCHANGED <<gt_vars, an_vars, sv_vars>>

\* lines 319-327 as an update of the ticker's latest row when it has one
WriteRecommendation_Upsert(p) ==
    /\ fb[p].pc = "write"
    /\ \E info \in InfoOutcomes(fb[p].cand.ticker), commit_ok \in BOOLEAN :
          IF info = "raise" \/ ~commit_ok
          THEN /\ fb' = [fb EXCEPT ![p].pc = "loop", ![p].cand = NoCandidate,
                                   ![p].lost = IF info = "raise" THEN "price" ELSE "commit"]
               /\ UNCHANGED recs
          ELSE /\ recs' = [r \in {x \in BagToSet(recs) : x.ticker # fb[p].cand.ticker}
                                |-> recs[r]]
                            (+) SetToBag({Recommendation(fb[p].cand, fb[p].today,
                                     IF info = "quote" THEN QuotePrice ELSE 0, fb[p].run)})
               /\ fb' = [fb EXCEPT ![p].pc = "loop", ![p].cand = NoCandidate]
    /\ UNCHANGED <<clock, runs_started, overlapped>>
    /\ UNCHANGED <<gt_vars, an_vars, sv_vars>>

\* lines 313-332 with one transaction for the batch: a failure rolls back
\* the rows the invocation added before
WriteRecommendation_SharedTransaction(p) ==
    /\ fb[p].pc = "write"
    /\ \E info \in InfoOutcomes(fb[p].cand.ticker), commit_ok \in BOOLEAN :
          IF info = "raise" \/ ~commit_ok
          THEN /\ fb' = [fb EXCEPT ![p].pc = "loop", ![p].cand = NoCandidate,
                                   ![p].lost = IF info = "raise" THEN "price" ELSE "commit"]
               /\ recs' = [r \in {x \in BagToSet(recs) : x.by # fb[p].run} |-> recs[r]]
          ELSE /\ recs' = recs (+) SetToBag({Recommendation(fb[p].cand, fb[p].today,
                                     IF info = "quote" THEN QuotePrice ELSE 0, fb[p].run)})
               /\ fb' = [fb EXCEPT ![p].pc = "loop", ![p].cand = NoCandidate]
    /\ UNCHANGED <<clock, runs_started, overlapped>>
    /\ UNCHANGED <<gt_vars, an_vars, sv_vars>>

\* lines 313-332: the price lookup, db.add and db.commit; an exception in any
\* of them rolls the session back and the loop goes on.  Until the loop takes
\* its next step, lost tells which of them cost the candidate its row.
WriteRecommendation(p) ==
    /\ fb[p].pc = "write"
    /\ \E info \in InfoOutcomes(fb[p].cand.ticker), commit_ok \in BOOLEAN :
          IF info = "raise" \/ ~commit_ok
          THEN /\ fb' = [fb EXCEPT ![p].pc = "loop", ![p].cand = NoCandidate,
                                   ![p].lost = IF info = "raise" THEN "price" ELSE "commit"]
               /\ UNCHANGED recs
          ELSE /\ recs' = recs (+) SetToBag({Recommendation(fb[p].cand, fb[p].today,
                                     IF info = "quote" THEN QuotePrice ELSE 0, fb[p].run)})
               /\ fb' = [fb EXCEPT ![p].pc = "loop", ![p].cand = NoCandidate]
    /\ UNCHANGED <<clock, runs_started, overlapped>>
    /\ UNCHANGED <<gt_vars, an_vars, sv_vars>>

\* midnight
Tick ==
    /\ clock < MaxDay
    /\ clock' = clock + 1
    /\ UNCHANGED <<recs, fb, runs_started, overlapped>>
    /\ UNCHANGED <<gt_vars, an_vars, sv_vars>>

InitBreakout == ExtractIdle /\ BreakoutIdle /\ AnalyzeIdle /\ ServicesIdle

NextBreakout ==
    \/ Tick
    \/ \E p \in Procs :
          \/ StartRun(p)
          \/ GetTrending(p)
          \/ Identify(p)
          \/ EndOfCandidates(p)
          \/ NextCandidate(p)
          \/ WriteRecommendation(p)

SpecBreakout == InitBreakout /\ [][NextBreakout]_vars

(***************************************************************************)
(* LLMAgent (lines 33-214)                                                 *)
(***************************************************************************)
\* What requests.post and the lines 192-196 can meet: a transport failure or
\* an HTTP error status (a RequestException), a body without
\* choices[0].message.content, or a body with a content string.
\* the message content of an LLM response: a JSON object, another JSON
\* value, and two texts that are no JSON
JsonObject == "{\"overall_sentiment\": 1}"

Contents == {JsonObject, "[]", "I cannot", "{oops"}

Responses ==
    {[kind |-> "transport", content |-> ""], [kind |-> "malformed", content |-> ""]}
        \cup {[kind |-> "content", content |-> c] : c \in Contents}

\* json.loads(content): a mapping, another JSON value, or a JSONDecodeError
json_loads(c) ==
    CASE c = JsonObject -> "mapping"
      [] c = "[]" -> "nonmapping"
      [] OTHER -> "JSONDecodeError"

\* what .get("overall_sentiment", 0) reads (lines 394-395) in the value
\* json.loads(c) returned
sentiment_in(c) == IF c = JsonObject THEN 1 ELSE 0

max_retries == 3

\* lines 199-203 with a JSONDecodeError counted as a failed attempt
OnContent_Retry(st, c) ==
    IF json_loads(c) = "JSONDecodeError"
    THEN [status |-> IF st.retry_count + 1 < max_retries THEN "retry" ELSE "done",
          call |-> [st EXCEPT !.retry_count = @ + 1],
          result |-> [kind |-> "error", overall_sentiment |-> 0, raw_content |-> "",
                      requests |-> st.requests, last |-> c, waited |-> st.waited],
          exc |-> ""]
    ELSE [status |-> "done", call |-> st,
          result |-> [kind |-> json_loads(c), overall_sentiment |-> sentiment_in(c),
                      raw_content |-> "",
                      requests |-> st.requests, last |-> c, waited |-> st.waited],
          exc |-> ""]

\* lines 198-203 (json_output is True in every call of the engine): st is the
\* call after its request was counted, c the content received
OnContent(st, c) ==
    IF json_loads(c) = "JSONDecodeError"
    THEN [status |-> "done", call |-> st,
          result |-> [kind |-> "parse_error", overall_sentiment |-> 0, raw_content |-> c,
                      requests |-> st.requests, last |-> c, waited |-> st.waited],
          exc |-> ""]
    ELSE [status |-> "done", call |-> st,
          result |-> [kind |-> json_loads(c), overall_sentiment |-> sentiment_in(c),
                      raw_content |-> "",
                      requests |-> st.requests, last |-> c, waited |-> st.waited],
          exc |-> ""]

\* line 211: time.sleep(2)
RetryWait == 2

\* line 210 with <= for <
RetryAgain_Inclusive(retry_count) == retry_count <= max_retries

\* lines 190 and 210: retry_count < max_retries, after the increment of line 208
RetryAgain(retry_count) == retry_count < max_retries

\* lines 190-214: one pass of the while loop of _call_llm_api, on response r
_call_llm_api(st0, r) ==
    LET st == [st0 EXCEPT !.requests = @ + 1, !.last = r.kind]
    IN  CASE r.kind = "transport" ->
               IF RetryAgain(st.retry_count + 1)
               THEN [status |-> "retry",
                     call |-> [st EXCEPT !.retry_count = @ + 1, !.waited = @ + RetryWait],
                     result |-> NoLLMResult, exc |-> ""]
               ELSE [status |-> "done", call |-> [st EXCEPT !.retry_count = @ + 1],
                     result |-> [kind |-> "error", overall_sentiment |-> 0,
                                 raw_content |-> "", requests |-> st.requests,
                                 last |-> "transport", waited |-> st.waited],
                     exc |-> ""]
          [] r.kind = "malformed" ->
               [status |-> "raised", call |-> st, result |-> NoLLMResult, exc |-> "KeyError"]
          [] OTHER -> OnContent([st EXCEPT !.last = r.content], r.content)

\* lines 44 and 72
Neutral ==
    [kind |-> "neutral", overall_sentiment |-> 0, raw_content |-> "", requests |-> 0,
     last |-> "none", waited |-> 0]

\* the test of line 43 left out
NoArticles_Never(n) == FALSE

\* line 43: if not articles
NoArticles(n) == n = 0

\* line 71: if not posts
NoPosts(n) == n = 0

(***************************************************************************)
(* analyze_stock (lines 337-460) and analyze_watchlist_stocks (240-250),   *)
(* called one after the other by one caller.  A StockAnalysis row is       *)
(* modelled by its ticker and its analysis_date.                           *)
(***************************************************************************)
Tickers == {"GME", "AMC"}

Watchlists == {<<>>, <<"GME">>, <<"GME", "AMC", "GME">>}

ItemCounts == {0, 2, 12}

\* the list of n articles or posts a fetch returned: the items are named by
\* numbers, in an order that is not the order of their names
ItemsOf(n) == [i \in 1..n |-> IF i % 2 = 1 THEN i + 1 ELSE i - 1]

\* lines 46 and 74: the length of the slice [:10]
PromptCap == 10

\* lines 46 and 74 without the slice
PromptItems_All(items) == items

\* lines 46-48 and 74-76: the items whose text the prompt embeds
PromptItems(items) ==
    SubSeq(items, 1, IF Len(items) < PromptCap THEN Len(items) ELSE PromptCap)

\* line 243 without .distinct()
Distinct_All(seq) == seq

\* line 243: .distinct()
RECURSIVE Distinct(_)
Distinct(seq) ==
    IF seq = <<>> THEN <<>>
    ELSE <<Head(seq)>> \o SelectSeq(Distinct(Tail(seq)), LAMBDA t : t # Head(seq))

\* the query of lines 353-356 with no row ever found
ExistingAnalysis_NeverFound(rows, ticker, today) == FALSE

\* the query of lines 353-356 filtering on the day before today
ExistingAnalysis_Yesterday(rows, ticker, today) ==
    \E r \in BagToSet(rows) : r.ticker = ticker /\ r.date = today - 1

\* lines 353-356
ExistingAnalysis(rows, ticker, today) ==
    \E r \in BagToSet(rows) : r.ticker = ticker /\ r.date = today

\* analyze_stock returns: its frame is gone; the ticker, the call number, the
\* value returned and the exception caught at line 457 are kept
ReturnFrom(a, value, exc) ==
    [IdleCall EXCEPT !.pc = "returned", !.ticker = a.ticker, !.call = a.call,
                     !.ret = value, !.exc = exc]

\* lines 243-244
StartWatchlistJob ==
    /\ an.pc \in {"idle", "returned"}
    /\ wl_todo = <<>>
    /\ watchlist # <<>>
    /\ calls_started < MaxCalls
    /\ wl_todo' = Distinct(watchlist)
    /\ UNCHANGED <<analyses, an, calls_started, watchlist>>
    /\ UNCHANGED <<gt_vars, fb_vars, sv_vars>>

\* lines 347-360, called from line 248 with the next ticker of the watchlist
\* or, when no watchlist job is running, directly with any ticker
CallAnalyzeStock ==
    /\ an.pc \in {"idle", "returned"}
    /\ calls_started < MaxCalls
    /\ \E t \in Tickers, query_ok \in BOOLEAN :
          /\ wl_todo # <<>> => t = Head(wl_todo)
          /\ LET a == [IdleCall EXCEPT !.ticker = t, !.call = calls_started + 1,
                                       !.today = clock]
             IN  an' = IF ~query_ok THEN ReturnFrom(a, "None", "SQLAlchemyError")
                       ELSE IF ExistingAnalysis(analyses, t, clock)
                       THEN ReturnFrom(a, "existing", "")
                       ELSE [a EXCEPT !.pc = "fetch"]
    /\ calls_started' = calls_started + 1
    /\ wl_todo' = IF wl_todo = <<>> THEN <<>> ELSE Tail(wl_todo)
    /\ UNCHANGED <<analyses, watchlist>>
    /\ UNCHANGED <<gt_vars, fb_vars, sv_vars>>

\* lines 362-373
FetchData ==
    /\ an.pc = "fetch"
    /\ \E nn \in ItemCounts, pn \in ItemCounts, data_ok \in BOOLEAN :
          an' = IF data_ok THEN [an EXCEPT !.pc = "news", !.news_n = nn, !.posts_n = pn]
                ELSE ReturnFrom(an, "None", "")
    /\ UNCHANGED <<analyses, calls_started, watchlist, wl_todo>>
    /\ UNCHANGED <<gt_vars, fb_vars, sv_vars>>

\* what analyze_stock holds of the result r of method fn called with n items,
\* its prompt made of the items in prompt
MethodResult(fn, n, prompt, r) ==
    [fn |-> fn, items |-> n, kind |-> r.kind, overall_sentiment |-> r.overall_sentiment,
     raw_content |-> r.raw_content, requests |-> r.requests, last |-> r.last,
     waited |-> r.waited, prompt |-> prompt]

\* One step of the LLMAgent method fn, called with n items, at a position of
\* analyze_stock that goes on at position next: the short cut for an empty
\* input, or one pass of the loop of _call_llm_api.
LLMStep(empty, fn, n, prompt, next) ==
    IF empty
    THEN an' = [an EXCEPT ![fn] = Neutral.kind,
                          !.res = MethodResult(fn, n, <<>>, Neutral), !.pc = next]
    ELSE \E r \in Responses :
            LET out == _call_llm_api([an.llm EXCEPT !.prompt = prompt], r)
            IN  an' = CASE out.status = "retry" -> [an EXCEPT !.llm = out.call]
                        [] out.status = "raised" -> ReturnFrom(an, "None", out.exc)
                        [] OTHER -> [an EXCEPT ![fn] = out.result.kind,
                                               !.res = MethodResult(fn, n, prompt, out.result),
                                               !.llm = NoLLMCall, !.pc = next]

\* line 376: analyze_news_sentiment (lines 41-67)
NewsSentiment ==
    /\ an.pc = "news"
    /\ LLMStep(NoArticles(an.news_n), "news", an.news_n,
               PromptItems(ItemsOf(an.news_n)), "reddit")
    /\ UNCHANGED <<analyses, calls_started, watchlist, wl_todo>>
    /\ UNCHANGED <<gt_vars, fb_vars, sv_vars>>

\* line 377: analyze_reddit_sentiment (lines 69-96)
RedditSentiment ==
    /\ an.pc = "reddit"
    /\ LLMStep(NoPosts(an.posts_n), "reddit", an.posts_n,
               PromptItems(ItemsOf(an.posts_n)), "summary")
    /\ UNCHANGED <<analyses, calls_started, watchlist, wl_todo>>
    /\ UNCHANGED <<gt_vars, fb_vars, sv_vars>>

\* line 380: generate_stock_summary (lines 98-139)
StockSummary ==
    /\ an.pc = "summary"
    /\ LLMStep(FALSE, "summary", 1, <<>>, "save")
    /\ UNCHANGED <<analyses, calls_started, watchlist, wl_todo>>
    /\ UNCHANGED <<gt_vars, fb_vars, sv_vars>>

\* lines 382-403: .get on a result that is no mapping raises AttributeError;
\* the commit of the StockAnalysis row succeeds or raises
SaveAnalysis ==
    /\ an.pc = "save"
    /\ \E commit_ok \in BOOLEAN :
          IF "nonmapping" \in {an.news, an.reddit, an.summary}
          THEN an' = ReturnFrom(an, "None", "AttributeError") /\ UNCHANGED analyses
          ELSE IF ~commit_ok
          THEN an' = ReturnFrom(an, "None", "SQLAlchemyError") /\ UNCHANGED analyses
          ELSE /\ analyses' = analyses (+) SetToBag({[ticker |-> an.ticker, date |-> an.today,
                                                      by |-> an.call]})
               /\ an' = [an EXCEPT !.pc = "items", !.res = NoMethodResult]
    /\ UNCHANGED <<calls_started, watchlist, wl_todo>>
    /\ UNCHANGED <<gt_vars, fb_vars, sv_vars>>

\* lines 405-460: the StockNews and StockRedditPost rows and their commit
SaveItems ==
    /\ an.pc = "items"
    /\ \E ok \in BOOLEAN :
          an' = IF ok THEN ReturnFrom(an, "analysis", "")
                ELSE ReturnFrom(an, "None", "SQLAlchemyError")
    /\ UNCHANGED <<analyses, calls_started, watchlist, wl_todo>>
    /\ UNCHANGED <<gt_vars, fb_vars, sv_vars>>

\* midnight, for the analysis workflow
TickAnalyze ==
    /\ clock < MaxDay
    /\ clock' = clock + 1
    /\ UNCHANGED <<recs, fb, runs_started, overlapped>>
    /\ UNCHANGED <<gt_vars, an_vars, sv_vars>>

InitAnalyze ==
    /\ ExtractIdle
    /\ BreakoutIdle
    /\ ServicesIdle
    /\ analyses = EmptyBag
    /\ an = IdleCall
    /\ calls_started = 0
    /\ watchlist \in Watchlists
    /\ wl_todo = <<>>

NextAnalyze ==
    \/ TickAnalyze
    \/ StartWatchlistJob
    \/ CallAnalyzeStock
    \/ FetchData
    \/ NewsSentiment
    \/ RedditSentiment
    \/ StockSummary
    \/ SaveAnalysis
    \/ SaveItems

SpecAnalyze == InitAnalyze /\ [][NextAnalyze]_vars

(***************************************************************************)
(* Properties of the ticker extractor                                      *)
(***************************************************************************)

\* C4: the list the extractor returns, at every point of its construction,
\* holds no member of the common-word stoplist and no member of the known
\* index-fund set.
C4_NoStoplistedTicker ==
    \A t \in Range(gt_result.validated) : t \notin common_words /\ t \notin known_etfs

\* C4 witness: a run that has returned tickers, from a token set holding a
\* stoplist word and an index fund that the price lookup knows.
C4_Witness ==
    /\ gt_pc = "done"
    /\ {"THE", "SPY"} \subseteq trending
    /\ StockInfo(quote_pat, "SPY") = "quote"
    /\ StockInfo(quote_pat, "THE") = "quote"
    /\ gt_result.validated # <<>>

\* The tokens of the claim C5: $-prefixed tokens of 1 to 5 letters and bare
\* uppercase words of 3 to 5 letters, uppercased.
C5_Tokens ==
    UNION {{titles[k][i].upper :
               i \in {j \in 1..Len(titles[k]) :
                        \/ titles[k][j].dollar /\ titles[k][j].len \in 1..5
                        \/ ~titles[k][j].dollar /\ titles[k][j].caps /\ titles[k][j].len \in 3..5}} :
           k \in 1..Len(titles)}

C5_Candidates == {t \in C5_Tokens : t \notin common_words /\ t \notin known_etfs}

\* C5: when the listing of hot posts does not fail and at most 50 candidates
\* survive the filter, the extractor returns exactly the candidates for which
\* the price lookup returns a quote.
C5_ReturnsQuotedCandidates ==
    (gt_pc = "done" /\ hot_ok = Len(titles) /\ Cardinality(C5_Candidates) <= 50)
        => Range(gt_result.validated) = {t \in C5_Candidates : StockInfo(quote_pat, t) = "quote"}

\* C6: one run makes at most 50 price lookups and returns at most 50 tickers.
C6_AtMostFiftyLookups ==
    /\ Len(gt_result.lookups) <= 50
    /\ Len(gt_result.validated) <= 50

\* C6 witness: more than 50 candidates survived the filter and the run ended
\* with 50 lookups, all of them kept.
C6_Witness ==
    /\ gt_pc = "done"
    /\ Len(filtered) > 50
    /\ Len(gt_result.lookups) = 50
    /\ Len(gt_result.validated) = 50

\* C7: the extractor never raises, and when it has returned, every candidate
\* of the (capped) list was looked up and exactly those whose lookup gave a
\* quote are in the result, whatever the lookups of the other candidates did;
\* when no lookup gave a quote the result is empty.
C7_FailedLookupDropsOnlyThatCandidate ==
    /\ ~gt_result.raised
    /\ gt_pc = "done" =>
        /\ gt_result.lookups = Take(filtered, 50)
        /\ gt_result.validated =
              SelectSeq(Take(filtered, 50), LAMBDA t : StockInfo(quote_pat, t) = "quote")
        /\ (\A i \in 1..Len(gt_result.lookups) :
                StockInfo(quote_pat, gt_result.lookups[i]) # "quote")
              => gt_result.validated = <<>>

\* C7 witness: a returned run in which a lookup raised and a candidate that
\* came later in the list was still looked up and kept.
C7_Witness ==
    /\ gt_pc = "done"
    /\ \E i, j \in 1..Len(gt_result.lookups) :
          /\ i < j
          /\ StockInfo(quote_pat, gt_result.lookups[i]) = "raise"
          /\ gt_result.lookups[j] \in Range(gt_result.validated)

(***************************************************************************)
(* Properties of find_breakout_stocks                                      *)
(***************************************************************************)
SameKey(r1, r2) == r1.ticker = r2.ticker /\ r1.date = r2.date

RowsOfRun(run) == {r \in BagToSet(recs) : r.by = run}

\* C1: as long as no invocation has started while another was running, the
\* store holds at most one BreakoutRecommendation row per (ticker, date).
C1_OneRecommendationPerTickerDay ==
    ~overlapped =>
        \A r1, r2 \in BagToSet(recs) :
            SameKey(r1, r2) => (r1 = r2 /\ CopiesIn(r1, recs) = 1)

\* C1 witness: two runs, one after the other on the same day, have gone
\* through their candidates; the first wrote a row for each ticker, the second
\* none.
C1_Witness ==
    /\ ~overlapped
    /\ clock = 1
    /\ {r.ticker : r \in RowsOfRun(1)} = {"GME", "AMC"}
    /\ RowsOfRun(2) = {}
    /\ \E p \in Procs :
          fb[p].run = 2 /\ fb[p].pc = "returned" /\ fb[p].outcome = "completed"

C8_EmptyExtractorResultIsNoSignal ==
    \A p \in Procs :
        /\ fb[p].pc = "identify" => fb[p].trending # <<>>
        /\ fb[p].outcome = "no_signal" =>
              /\ fb[p].pc = "returned"
              /\ fb[p].llm_calls = 0
              /\ RowsOfRun(fb[p].run) = {}
        /\ (fb[p].llm_calls > 0 \/ RowsOfRun(fb[p].run) # {}) => fb[p].outcome # "no_signal"

\* C8 witness: an invocation that got the empty list has returned.
C8_Witness ==
    \E p \in Procs :
        fb[p].pc = "returned" /\ fb[p].outcome = "no_signal"

(***************************************************************************)
(* Properties of analyze_stock and of the LLMAgent methods                 *)
(***************************************************************************)

\* C2: calls of analyze_stock made one after the other, directly or for the
\* tickers of the watchlist, leave at most one StockAnalysis row per
\* (ticker, analysis date) in the store.
C2_OneAnalysisPerTickerDay ==
    \A r1, r2 \in BagToSet(analyses) :
        (r1.ticker = r2.ticker /\ r1.date = r2.date) =>
            (r1 = r2 /\ CopiesIn(r1, analyses) = 1)

\* C2 witness: a second call for a ticker analysed earlier the same day has
\* returned the existing row, and the store holds that one row for the key.
C2_Witness ==
    /\ an.pc = "returned"
    /\ an.ret = "existing"
    /\ an.call = 2
    /\ \E r \in BagToSet(analyses) : r.ticker = an.ticker /\ r.date = clock /\ r.by = 1

\* C9: analyze_news_sentiment and analyze_reddit_sentiment, called with an
\* empty list, return the neutral result with overall sentiment 0 and send no
\* request to the LLM: neither is a request in flight for an empty list, nor
\* was one made when the method has returned.
C9_EmptyInputIsNeutralWithoutRequest ==
    /\ (an.pc = "news" /\ an.news_n = 0) => an.llm.requests = 0
    /\ (an.pc = "reddit" /\ an.posts_n = 0) => an.llm.requests = 0
    /\ (an.res.fn \in {"news", "reddit"} /\ an.res.items = 0) =>
          /\ an.res.kind = "neutral"
          /\ an.res.overall_sentiment = 0
          /\ an.res.requests = 0

\* C9 witness: both methods were called with an empty list in one analysis;
\* the second has just returned.
C9_Witness ==
    /\ an.pc = "summary"
    /\ an.news_n = 0
    /\ an.news = "neutral"
    /\ an.res.fn = "reddit"
    /\ an.res.items = 0

\* C10: an LLM response whose content is no valid JSON ends the call with the
\* error payload that carries the content as raw_content; no JSONDecodeError
\* leaves the call, and the request is repeated only after a transport
\* failure, never after a content was received.
C10_NonJsonContentIsErrorPayload ==
    /\ an.llm.last \in {"none", "transport"}
    /\ an.exc # "JSONDecodeError"
    /\ (an.res.last \in Contents /\ json_loads(an.res.last) = "JSONDecodeError") =>
          /\ an.res.kind = "parse_error"
          /\ an.res.raw_content = an.res.last
          /\ an.pc \in {"reddit", "summary", "save"}

\* C10 witness: a method returned the error payload for the text "I cannot",
\* received on the second request, the first having failed in transport.
C10_Witness ==
    /\ an.res.kind = "parse_error"
    /\ an.res.raw_content = "I cannot"
    /\ an.res.requests = 2

\* C11 as stated: a call that gives up on transport failures has made the
\* first request and three retries.
C11_ThreeRetriesBeforeError ==
    (an.res.kind = "error" /\ an.res.last = "transport") => an.res.requests = 1 + 3

\* C11 amended: a call sends at most three requests in all, the first and up
\* to two retries; it sleeps 2 seconds before each retry and at no other
\* time; when the third request also fails in transport the call returns the
\* error object, and no RequestException leaves it.
C11_ThreeAttemptsThenError ==
    /\ an.llm.requests < max_retries
    /\ an.llm.requests = an.llm.retry_count
    /\ an.llm.waited = RetryWait * an.llm.retry_count
    /\ an.res.requests <= max_retries
    /\ an.res.requests > 0 => an.res.waited = RetryWait * (an.res.requests - 1)
    /\ an.res.last = "transport" => (an.res.kind = "error" /\ an.res.requests = max_retries)
    /\ an.exc # "RequestException"

\* C11 witness: a method returned the error object after three requests that
\* failed in transport and two waits.
C11_Witness ==
    /\ an.res.kind = "error"
    /\ an.res.last = "transport"
    /\ an.res.requests = 3
    /\ an.res.waited = 4

\* the items the method at work in analyze_stock was called with
InputOf(fn, a) ==
    IF fn = "news" THEN ItemsOf(a.news_n) ELSE IF fn = "reddit" THEN ItemsOf(a.posts_n) ELSE <<>>

\* prompt embeds the first 10 items of input, in the order of input, and
\* nothing else
FirstTenOf(prompt, input) ==
    /\ Len(prompt) <= 10
    /\ Len(prompt) <= Len(input)
    /\ Len(input) <= 10 => Len(prompt) = Len(input)
    /\ Len(input) > 10 => Len(prompt) = 10
    /\ \A i \in 1..Len(prompt) : prompt[i] = input[i]
    /\ \A j \in 1..Len(input) : j >= 11 => \A i \in 1..Len(prompt) : prompt[i] # input[j]

\* C12: the prompt analyze_news_sentiment and analyze_reddit_sentiment send,
\* in every request and whatever the length of the list, embeds the first 10
\* items of the list in list order; no item from position 11 on is in it.
C12_PromptEmbedsFirstTenItems ==
    /\ (an.pc \in {"news", "reddit"} /\ an.llm.requests > 0) =>
          FirstTenOf(an.llm.prompt, InputOf(an.pc, an))
    /\ (an.res.fn \in {"news", "reddit"} /\ an.res.requests > 0) =>
          FirstTenOf(an.res.prompt, InputOf(an.res.fn, an))

\* C12 witness: a list of 12 posts was analysed with a prompt of 10 items,
\* sent twice.
C12_Witness ==
    /\ an.res.fn = "reddit"
    /\ an.res.items = 12
    /\ an.res.requests = 2
    /\ Len(an.res.prompt) = 10

(***************************************************************************)
(* More properties of find_breakout_stocks                                 *)
(***************************************************************************)

C17_FailedWriteRollsBackOnlyItself ==
    [][\A p \in Procs :
          fb[p].pc = "write" =>
              /\ fb'[p].pc \in {"write", "loop"}
              /\ fb'[p].run = fb[p].run
              /\ \A r \in BagToSet(recs) : CopiesIn(r, recs') >= CopiesIn(r, recs)]_vars

\* C17 witness: the commit of a candidate has just failed in an invocation
\* that committed a row before; the row is in the store and the loop goes on.
C17_Witness ==
    \E p \in Procs :
        /\ fb[p].lost = "commit"
        /\ fb[p].pc = "loop"
        /\ RowsOfRun(fb[p].run) # {}

C19_RowsAreImmutableOnceWritten ==
    [][/\ \A r \in BagToSet(recs) : CopiesIn(r, recs') >= CopiesIn(r, recs)
       /\ \A r \in BagToSet(recs') :
             CopiesIn(r, recs') > CopiesIn(r, recs) =>
                 /\ CopiesIn(r, recs') = CopiesIn(r, recs) + 1
                 /\ \A x \in BagToSet(recs') \ {r} : CopiesIn(x, recs') = CopiesIn(x, recs)
                 /\ ~overlapped' => ~\E x \in BagToSet(recs) : SameKey(x, r)]_vars

\* C19 witness: the row the first run wrote for GME on the first day is in
\* the store on the second day, next to the GME row the second run wrote on
\* the second day.
C19_Witness ==
    /\ clock = 2
    /\ \E r1, r2 \in BagToSet(recs) :
          /\ r1.ticker = "GME" /\ r1.date = 1 /\ r1.by = 1
          /\ r2.ticker = "GME" /\ r2.date = 2 /\ r2.by = 2

(***************************************************************************)
(* More properties of the LLM call wrapper                                 *)
(***************************************************************************)

\* C20: whatever the LLM service answers, _call_llm_api raises nothing and
\* returns a mapping: a parsed result or an error object.
C20_WrapperNeverRaises ==
    /\ an.exc \notin {"KeyError", "JSONDecodeError", "RequestException"}
    /\ an.res.fn # "" => an.res.kind \in {"neutral", "mapping", "parse_error", "error"}

(***************************************************************************)
(* More properties of analyze_stock and analyze_watchlist_stocks           *)
(***************************************************************************)

\* C21: no step changes or removes a StockAnalysis row, and a call of
\* analyze_stock made when the store has a row for (ticker, today) returns in
\* the step that made the query: it returns the row (None when the query
\* itself raised), it has fetched nothing and called no LLM method, and the
\* store is as it was.
C21_ExistingAnalysisIsReturnedUntouched ==
    [][/\ \A r \in BagToSet(analyses) : CopiesIn(r, analyses') >= CopiesIn(r, analyses)
       /\ (/\ an'.call = an.call + 1
           /\ \E r \in BagToSet(analyses) : r.ticker = an'.ticker /\ r.date = clock) =>
              /\ an'.pc = "returned"
              /\ an'.ret = IF an'.exc = "" THEN "existing" ELSE "None"
              /\ an'.exc \in {"", "SQLAlchemyError"}
              /\ an'.res = NoMethodResult
              /\ an'.llm = NoLLMCall
              /\ analyses' = analyses]_vars

\* C21 witness: after midnight a call wrote the row of the second day and the
\* next call, for the same ticker on that day, returned it; the store holds
\* that one row.
C21_Witness ==
    /\ clock = 2
    /\ an.pc = "returned"
    /\ an.ret = "existing"
    /\ an.res = NoMethodResult
    /\ BagToSet(analyses) = {[ticker |-> an.ticker, date |-> 2, by |-> 1]}
    /\ BagCardinality(analyses) = 1

\* C28: a call of _call_llm_api sends at most 3 requests; a request that is
\* answered ends the call; the call has slept 2 seconds between two attempts
\* and not after the last; and a call that is over has returned a mapping.
C28_AtMostThreeRequestsThenAMapping ==
    /\ an.llm.requests < 3 /\ an.res.requests <= 3
    /\ an.llm.last \in {"none", "transport"}
    /\ an.llm.waited = 2 * an.llm.requests
    /\ an.res.requests > 0 => an.res.waited = 2 * (an.res.requests - 1)
    /\ an.exc \notin {"KeyError", "JSONDecodeError", "RequestException"}
    /\ an.res.requests > 0 => an.res.kind \in {"mapping", "parse_error", "error"}

C30_EachWatchlistTickerAnalysedOnce ==
    [][/\ \A r \in BagToSet(analyses) : CopiesIn(r, analyses') >= CopiesIn(r, analyses)
       /\ (wl_todo = <<>> /\ wl_todo' # <<>>) =>
              /\ Range(wl_todo') = Range(watchlist)
              /\ \A i, j \in 1..Len(wl_todo') : i # j => wl_todo'[i] # wl_todo'[j]
       /\ (wl_todo # <<>> /\ wl_todo' # wl_todo) =>
              /\ wl_todo' = Tail(wl_todo)
              /\ an'.call = an.call + 1
              /\ an'.ticker = Head(wl_todo)
       /\ (wl_todo # <<>> /\ an'.call # an.call) => wl_todo' = Tail(wl_todo)]_vars

\* C30 witness: in a run over GME and AMC the call for GME has returned None
\* and AMC is the next ticker of the run.
C30_Witness ==
    /\ wl_todo = <<"AMC">>
    /\ an.pc = "returned"
    /\ an.ret = "None"
    /\ an.ticker = "GME"
    /\ calls_started < MaxCalls

(***************************************************************************)
(* The watchlist service (src/app/services/watchlist.py) and the endpoints *)
(* that use it (src/main.py, src/routers/stock_data.py).                   *)
(*                                                                         *)
(* A symbol is a sequence of characters.  The alphabet has a lower-case    *)
(* letter, its upper-case form, a digit and a blank, so that upper(),      *)
(* strip() and isalpha() each have something to do.  _stocks is a Python   *)
(* set; list(self._stocks) is returned in no particular order and is kept  *)
(* as the set of its elements.                                             *)
(***************************************************************************)
MaxSymbolLen == 2   \* characters in a submitted symbol

Chars == {"a", "A", "1", " "}

Letters == {"a", "A"}

RawSymbols == UNION {[1..n -> Chars] : n \in 0..MaxSymbolLen}

\* str.upper()
upper(s) == [i \in 1..Len(s) |-> IF s[i] = "a" THEN "A" ELSE s[i]]

\* str.strip(): leading and trailing blanks removed, inner blanks kept
RECURSIVE strip(_)
strip(s) ==
    IF s = <<>> THEN s
    ELSE IF Head(s) = " " THEN strip(Tail(s))
    ELSE IF s[Len(s)] = " " THEN strip(SubSeq(s, 1, Len(s) - 1))
    ELSE s

\* str.isalpha(): false for the empty string
isalpha(s) == s # <<>> /\ \A i \in 1..Len(s) : s[i] \in Letters

\* watchlist.py:9-35 without the test of lines 31-32
add_stock_NoDuplicateTest(S, raw) ==
    LET symbol == strip(upper(raw))
    IN  IF symbol = <<>> \/ ~isalpha(symbol)
        THEN [stocks |-> S, raised |-> "ValueError", ret |-> {}]
        ELSE [stocks |-> S \cup {symbol}, raised |-> "", ret |-> S \cup {symbol}]

\* watchlist.py:9-35.  The result carries the new _stocks, the exception raised
\* ("" for none) and the list returned.
add_stock(S, raw) ==
    LET symbol == strip(upper(raw))
    IN  IF symbol = <<>> THEN [stocks |-> S, raised |-> "ValueError", ret |-> {}]
        ELSE IF ~isalpha(symbol) THEN [stocks |-> S, raised |-> "ValueError", ret |-> {}]
        ELSE IF symbol \in S THEN [stocks |-> S, raised |-> "ValueError", ret |-> {}]
        ELSE [stocks |-> S \cup {symbol}, raised |-> "", ret |-> S \cup {symbol}]

\* watchlist.py:37-56
remove_stock(S, raw) ==
    LET symbol == strip(upper(raw))
    IN  IF symbol \notin S THEN [stocks |-> S, raised |-> "ValueError", ret |-> {}]
        ELSE [stocks |-> S \ {symbol}, raised |-> "", ret |-> S \ {symbol}]

\* main.py:45-50 and 71-76: a ValueError becomes a 400
Served(op, raw, r) ==
    [op |-> op, symbol |-> raw, raised |-> r.raised,
     status |-> IF r.raised = "" THEN 200 ELSE 400, body |-> r.ret]

\* POST /watchlist/add, main.py:36-50
AddStock ==
    /\ \E raw \in RawSymbols :
          LET r == add_stock(stocks, raw)
          IN  /\ stocks' = r.stocks
              /\ reply' = Served("add", raw, r)
    /\ UNCHANGED <<router_stocks, svc_call>>
    /\ UNCHANGED <<gt_vars, fb_vars, an_vars>>

\* DELETE /watchlist/remove, main.py:62-76
RemoveStock ==
    /\ \E raw \in RawSymbols :
          LET r == remove_stock(stocks, raw)
          IN  /\ stocks' = r.stocks
              /\ reply' = Served("remove", raw, r)
    /\ UNCHANGED <<router_stocks, svc_call>>
    /\ UNCHANGED <<gt_vars, fb_vars, an_vars>>

\* GET /watchlist, main.py:52-60
GetWatchlist ==
    /\ reply' = [op |-> "get", symbol |-> <<>>, raised |-> "", status |-> 200,
                 body |-> stocks]
    /\ UNCHANGED <<stocks, router_stocks, svc_call>>
    /\ UNCHANGED <<gt_vars, fb_vars, an_vars>>

\* GET /watchlist/historical, stock_data.py:62-80: one Alpha Vantage request
\* for each symbol of the watchlist_service of stock_data.py:8; any request
\* that raises turns the reply into a 500.  The body is kept as the set of the
\* keys of the mapping returned.
GetWatchlistHistorical ==
    /\ \E failing \in SUBSET router_stocks :
          reply' = IF failing = {}
                   THEN [op |-> "historical", symbol |-> <<>>, raised |-> "",
                         status |-> 200, body |-> router_stocks]
                   ELSE [op |-> "historical", symbol |-> <<>>, raised |-> "Exception",
                         status |-> 500, body |-> {}]
    /\ UNCHANGED <<stocks, router_stocks, svc_call>>
    /\ UNCHANGED <<gt_vars, fb_vars, an_vars>>

InitWatchlist == ExtractIdle /\ BreakoutIdle /\ AnalyzeIdle /\ ServicesIdle

NextWatchlist ==
    \/ AddStock
    \/ RemoveStock
    \/ GetWatchlist
    \/ GetWatchlistHistorical

SpecWatchlist == InitWatchlist /\ [][NextWatchlist]_vars

(***************************************************************************)
(* Properties of the watchlist                                             *)
(***************************************************************************)
\* C22: add_stock raises ValueError when the normalised symbol is empty, is
\* not alphabetic or is already in the watchlist, remove_stock raises it when
\* the normalised symbol is not in the watchlist, an operation that raises
\* leaves the watchlist as it was, and the watchlist only ever holds
\* non-empty alphabetic upper-case symbols.
C22_WatchlistErrorsAndShape ==
    [][LET symbol == strip(upper(reply'.symbol))
       IN  /\ (reply'.op = "add"
                /\ (symbol = <<>> \/ ~isalpha(symbol) \/ symbol \in stocks))
              => reply'.raised = "ValueError"
           /\ (reply'.op = "remove" /\ symbol \notin stocks)
              => reply'.raised = "ValueError"
           /\ reply'.raised = "ValueError" => stocks' = stocks
           /\ \A t \in stocks' :
                 t # <<>> /\ isalpha(t) /\ upper(t) = t /\ strip(t) = t]_vars

C22_Witness ==
    /\ reply.op = "add"
    /\ reply.raised = "ValueError"
    /\ reply.symbol = <<" ", "a">>
    /\ stocks = {<<"A">>, <<"A", "A">>}

\* C23: GET /watchlist/historical answers for exactly the stocks of the
\* watchlist that /watchlist/add and /watchlist/remove maintain.
C23_HistoricalCoversTheWatchlist ==
    (reply.op = "historical" /\ reply.status = 200) => reply.body = stocks

(***************************************************************************)
(* The news service (src/services/stock_news.py) with the Reddit search it *)
(* calls (src/services/reddit_service.py).                                 *)
(*                                                                         *)
(* An item is kept as its platform and its datetime (a number that orders  *)
(* as the formatted string does).  For each symbol the three providers     *)
(* either raise or yield a list.                                           *)
(***************************************************************************)
MaxLimit == 2       \* the limit argument of a service call

\* list.sort(key=..., reverse=True): by decreasing key, items with equal keys
\* in the order they had
sort_reverse(seq, keys) ==
    LET n == Len(seq)
        rank(i) == 1 + Cardinality({j \in 1..n :
                          keys[j] > keys[i] \/ (keys[j] = keys[i] /\ j < i)})
    IN  [k \in 1..n |-> seq[CHOOSE i \in 1..n : rank(i) = k]]

\* the source query parameter: absent (None or "", both falsy), or a name
Sources == {"", "finnhub", "FINNHUB", "alpha_vantage", "reddit", "Reddit", "error"}

\* str.lower() on the names above
lower(name) ==
    CASE name = "FINNHUB" -> "finnhub"
      [] name = "Reddit" -> "reddit"
      [] OTHER -> name

StockLists == {<<>>, <<"GME">>, <<"GME", "AMC">>}

Item(platform, datetime) == [platform |-> platform, datetime |-> datetime]

\* what a provider does for one symbol
ProviderOutcomes ==
    [finnhub : {"raise", <<>>, <<Item("finnhub", 1), Item("finnhub", 3)>>},
     alpha_vantage : {"raise", <<>>, <<Item("alpha_vantage", 2)>>},
     reddit : {"raise", <<>>, <<Item("reddit", 2), Item("reddit", 4)>>}]

\* datetime.now() of an error entry: later than any item
Now == 5

\* reddit_service.py:77-110 with the one default subreddit: a search that
\* raises yields the entry of _format_error (56-75)
get_posts_for_symbol(search, limit) ==
    LET results == IF search = "raise" THEN <<Item("error", Now)>> ELSE search
    IN  Take(sort_reverse(results, [i \in 1..Len(results) |-> results[i].datetime]),
             limit)

\* stock_news.py:54-114, the body of the loop for one symbol
symbol_news(o, limit, include_reddit, source) ==
    LET source_lower == lower(source)
        is_reddit_source == source # "" /\ source_lower = "reddit"
        is_alpha_vantage_source == source # "" /\ source_lower = "alpha_vantage"
        use_finnhub == ~is_reddit_source /\ ~is_alpha_vantage_source
        from_finnhub == IF use_finnhub THEN Take(o.finnhub, limit) ELSE <<>>
        from_alpha == IF ~is_reddit_source /\ (source = "" \/ is_alpha_vantage_source)
                         /\ o.alpha_vantage # "raise"
                      THEN Take(o.alpha_vantage, limit) ELSE <<>>
        from_reddit == IF include_reddit \/ is_reddit_source
                       THEN get_posts_for_symbol(o.reddit, limit) ELSE <<>>
        formatted_news == from_finnhub \o from_alpha \o from_reddit
        kept == IF source # "" /\ ~is_reddit_source
                THEN SelectSeq(formatted_news,
                               LAMBDA article : lower(article.platform) = source_lower)
                ELSE formatted_news
    IN  IF use_finnhub /\ o.finnhub = "raise"
        THEN <<Item("error", Now)>>
        ELSE Take(sort_reverse(kept, [i \in 1..Len(kept) |-> kept[i].datetime]), limit)

NewsCalls ==
    UNION {[fn : {"get_stocks_news"}, pc : {"called"}, stocks : {st},
            limit : 1..MaxLimit, include_reddit : BOOLEAN, source : Sources,
            providers : [Range(st) -> ProviderOutcomes], ret : {<<>>}] :
           st \in StockLists}

\* stock_news.py:28-116
GetStocksNews ==
    /\ svc_call.fn = "get_stocks_news"
    /\ svc_call.pc = "called"
    /\ svc_call' =
          [svc_call EXCEPT
             !.pc = "returned",
             !.ret = [symbol \in Range(svc_call.stocks) |->
                         symbol_news(svc_call.providers[symbol], svc_call.limit,
                                     svc_call.include_reddit, svc_call.source)]]
    /\ UNCHANGED <<stocks, router_stocks, reply>>
    /\ UNCHANGED <<gt_vars, fb_vars, an_vars>>

InitNews ==
    /\ ExtractIdle /\ BreakoutIdle /\ AnalyzeIdle
    /\ stocks = {}
    /\ router_stocks = {}
    /\ reply = NoReply
    /\ svc_call \in NewsCalls

NextNews == GetStocksNews

SpecNews == InitNews /\ [][NextNews]_vars

(***************************************************************************)
(* Properties of the news service                                          *)
(***************************************************************************)
\* C24: with a source filter, every item returned for every symbol has the
\* platform the filter names, compared without regard to case, whether or
\* not a provider call fails.
C24_EveryItemIsOfTheSource ==
    (svc_call.fn = "get_stocks_news" /\ svc_call.pc = "returned"
       /\ lower(svc_call.source) \in {"finnhub", "alpha_vantage", "reddit"})
    => \A symbol \in DOMAIN svc_call.ret :
          \A i \in 1..Len(svc_call.ret[symbol]) :
             lower(svc_call.ret[symbol][i].platform) = lower(svc_call.source)

(***************************************************************************)
(* RedditService.get_breakout_posts (src/services/reddit_service.py).      *)
(*                                                                         *)
(* A text (flair, title, body, phrase) is a sequence over the characters   *)
(* of the watchlist symbols; the empty sequence stands for None and for    *)
(* "", which the code treats alike.  A post carries what the function      *)
(* reads of it.  A URL is the pair of the site and the permalink, and      *)
(* the "" of an error entry is the empty sequence.                         *)
(***************************************************************************)
MaxListing == 2     \* posts a hot or new listing yields

\* str.lower()
lower_text(s) == [i \in 1..Len(s) |-> IF s[i] = "A" THEN "a" ELSE s[i]]

\* sub in s
Contains(sub, s) ==
    \E k \in 0..(Len(s) - Len(sub)) : SubSeq(s, k + 1, k + Len(sub)) = sub

Post(permalink, score, flair, title, selftext) ==
    [permalink |-> permalink, score |-> score, link_flair_text |-> flair,
     title |-> title, selftext |-> selftext]

\* the posts of the first subreddit: by flair, by title, by body, by nothing,
\* and by flair with the score of the first
SubredditPosts ==
    {Post(1, 5, <<"A">>, <<"1">>, <<>>),
     Post(2, 9, <<>>, <<"A", "1">>, <<>>),
     Post(3, 7, <<"1">>, <<"1">>, <<" ", "a", "1">>),
     Post(4, 8, <<"1">>, <<"1", "a">>, <<"1">>),
     Post(5, 5, <<"1", "a">>, <<>>, <<>>)}

Listings ==
    {l \in UNION {[1..n -> SubredditPosts] : n \in 0..MaxListing} :
        \A i, j \in 1..Len(l) : i # j => l[i] # l[j]}

\* what a subreddit does: subreddit.hot or subreddit.new raises, or both
\* yield a listing
SubredditOutcomes ==
    {[raises |-> TRUE, hot |-> <<>>, new |-> <<>>]}
    \cup [raises : {FALSE}, hot : Listings, new : Listings]

\* a second subreddit, when one is asked for: it raises, or has one hot post
OtherSubredditOutcomes ==
    {[raises |-> TRUE, hot |-> <<>>, new |-> <<>>],
     [raises |-> FALSE, hot |-> <<Post(6, 0, <<"a">>, <<>>, <<>>)>>, new |-> <<>>]}

FlairLists == {<<>>, <<<<"a">>>>}

PhraseLists == {<<<<"a", "1">>>>}

\* reddit_service.py:185-187
has_target_flair(post, target_flairs) ==
    /\ post.link_flair_text # <<>>
    /\ \E flair \in Range(target_flairs) :
          Contains(lower_text(flair), lower_text(post.link_flair_text))

\* reddit_service.py:190-194
has_sentiment(post, sentiment_phrases) ==
    \E phrase \in Range(sentiment_phrases) :
       \/ Contains(lower_text(phrase), lower_text(post.title))
       \/ /\ post.selftext # <<>>
          /\ Contains(lower_text(phrase), lower_text(post.selftext))

\* reddit_service.py:33-54 and 200; the summary, the datetime and the comment
\* count are not read by get_breakout_posts and are left out
_format_post(post, subreddit_name) ==
    [headline |-> post.title, url |-> <<"https://www.reddit.com", post.permalink>>,
     subreddit |-> subreddit_name, upvotes |-> post.score, platform |-> "reddit",
     flair |-> post.link_flair_text]

\* reddit_service.py:56-75: no upvotes
_format_error(subreddit_name) ==
    [headline |-> <<>>, url |-> <<>>, subreddit |-> subreddit_name,
     platform |-> "error"]

\* reddit_service.py:175-204, the body of the loop for one subreddit
subreddit_results(o, subreddit_name, target_flairs, sentiment_phrases) ==
    IF o.raises THEN <<_format_error(subreddit_name)>>
    ELSE LET posts == o.hot \o o.new
             matching ==
                SelectSeq(posts, LAMBDA post :
                   has_target_flair(post, target_flairs)
                   \/ has_sentiment(post, sentiment_phrases))
         IN  [i \in 1..Len(matching) |-> _format_post(matching[i], subreddit_name)]

\* reddit_service.py:207-213 without the test of line 211
unique_results_All(results) == results

\* reddit_service.py:207-213

RECURSIVE unique_results(_)
unique_results(results) ==
    IF results = <<>> THEN <<>>
    ELSE LET before == unique_results(SubSeq(results, 1, Len(results) - 1))
             post == results[Len(results)]
         IN  IF \E i \in 1..Len(before) : before[i].url = post.url
             THEN before
             ELSE Append(before, post)

\* x.get("upvotes", 0)
upvotes_key(x) == IF "upvotes" \in DOMAIN x THEN x.upvotes ELSE 0

RECURSIVE Flatten(_)
Flatten(lists) ==
    IF lists = <<>> THEN <<>> ELSE Head(lists) \o Flatten(Tail(lists))

\* reddit_service.py:172-217
get_breakout_posts(outcomes, limit, target_flairs, sentiment_phrases) ==
    LET results == Flatten([k \in 1..Len(outcomes) |->
                       subreddit_results(outcomes[k], k, target_flairs,
                                         sentiment_phrases)])
        unique == unique_results(results)
    IN  Take(sort_reverse(unique, [i \in 1..Len(unique) |-> upvotes_key(unique[i])]),
             limit)

\* hot(limit=limit*2) and new(limit=limit*2) yield at most 2*limit posts each
BreakoutPostsCalls ==
    {c \in [fn : {"get_breakout_posts"}, pc : {"called"}, limit : 1..MaxLimit,
            target_flairs : FlairLists, sentiment_phrases : PhraseLists,
            subreddits : {<<o>> : o \in SubredditOutcomes}
                         \cup (SubredditOutcomes \X OtherSubredditOutcomes),
            ret : {<<>>}] :
        \A k \in 1..Len(c.subreddits) :
           /\ Len(c.subreddits[k].hot) <= 2 * c.limit
           /\ Len(c.subreddits[k].new) <= 2 * c.limit}

GetBreakoutPosts ==
    /\ svc_call.fn = "get_breakout_posts"
    /\ svc_call.pc = "called"
    /\ svc_call' =
          [svc_call EXCEPT
             !.pc = "returned",
             !.ret = get_breakout_posts(svc_call.subreddits, svc_call.limit,
                                        svc_call.target_flairs,
                                        svc_call.sentiment_phrases)]
    /\ UNCHANGED <<stocks, router_stocks, reply>>
    /\ UNCHANGED <<gt_vars, fb_vars, an_vars>>

InitBreakoutPosts ==
    /\ ExtractIdle /\ BreakoutIdle /\ AnalyzeIdle
    /\ stocks = {}
    /\ router_stocks = {}
    /\ reply = NoReply
    /\ svc_call \in BreakoutPostsCalls

NextBreakoutPosts == GetBreakoutPosts

SpecBreakoutPosts == InitBreakoutPosts /\ [][NextBreakoutPosts]_vars

(***************************************************************************)
(* Properties of get_breakout_posts                                        *)
(***************************************************************************)
\* C25: get_breakout_posts returns at most limit posts, no two with the same
\* URL, by non-increasing upvotes, and every returned post that is not an
\* error entry is a listed post that has a target flair or a sentiment
\* phrase in its title or body.
C25_BreakoutPostsShape ==
    (svc_call.fn = "get_breakout_posts" /\ svc_call.pc = "returned")
    => LET ret == svc_call.ret
           listed == UNION {Range(svc_call.subreddits[k].hot)
                            \cup Range(svc_call.subreddits[k].new) :
                            k \in 1..Len(svc_call.subreddits)}
       IN  /\ Len(ret) <= svc_call.limit
           /\ \A i, j \in 1..Len(ret) : i # j => ret[i].url # ret[j].url
           /\ \A i, j \in 1..Len(ret) :
                 i < j => upvotes_key(ret[i]) >= upvotes_key(ret[j])
           /\ \A i \in 1..Len(ret) :
                 ret[i].platform # "error"
                 => \E post \in listed :
                       /\ ret[i].url = <<"https://www.reddit.com", post.permalink>>
                       /\ \/ has_target_flair(post, svc_call.target_flairs)
                          \/ has_sentiment(post, svc_call.sentiment_phrases)

\* a post of both listings is returned once, with an error entry after it
C25_Witness ==
    /\ svc_call.fn = "get_breakout_posts"
    /\ svc_call.pc = "returned"
    /\ Len(svc_call.subreddits) = 2
    /\ svc_call.subreddits[2].raises
    /\ svc_call.subreddits[1].hot = svc_call.subreddits[1].new
    /\ Len(svc_call.subreddits[1].hot) = 2
    /\ svc_call.limit = 2
    /\ Len(svc_call.ret) = 2
    /\ svc_call.ret[1].platform = "reddit"
    /\ svc_call.ret[2].platform = "error"

(***************************************************************************)
(* StockAnalysisService.analyze_breakout_candidates                        *)
(* (src/services/stock_analysis_service.py).                               *)
(*                                                                         *)
(* A JSON value carries its Python type (t) and its content (v): the       *)
(* fields of a dict as a record, the items of a list as a sequence, a      *)
(* string as a text.  A message content is either the JSON document of a   *)
(* value or a text that is no JSON; json.loads takes the first to its      *)
(* value and json.dumps takes a value to its document.                     *)
(***************************************************************************)
Dict(fields) == [t |-> "dict", v |-> fields]

List(items) == [t |-> "list", v |-> items]

Str(text) == [t |-> "str", v |-> text]

Num(n) == [t |-> "number", v |-> n]

Null == [t |-> "NoneType", v |-> <<>>]

\* json.dumps(value), and any text that json.loads takes to value
json_dumps(value) == [json |-> TRUE, value |-> value]

NotJson == [json |-> FALSE, value |-> Null]

\* the posts handed over: headline and summary are texts, url may be missing
RedditPostLists ==
    {<<>>,
     <<[headline |-> <<"1", " ", "a">>, summary |-> <<>>, url |-> 1]>>,
     <<[headline |-> <<"1">>, summary |-> <<"A", "1">>, url |-> 1],
       [headline |-> <<"1">>, summary |-> <<>>, url |-> 2]>>,
     <<[headline |-> <<"1">>, summary |-> <<"1">>, url |-> 1]>>,
     <<[headline |-> <<"a">>, summary |-> <<>>]>>}

\* the values of "breakout_candidates" in a response
CandidateValues ==
    {List(<<>>),
     List(<<Dict([symbol |-> Str(<<"A">>)])>>),
     List(<<Dict([symbol |-> Str(<<"A">>)]), Dict([symbol |-> Str(<<"A", "A">>)])>>),
     List(<<Dict([breakout_reason |-> Str(<<"a">>)])>>),
     List(<<Dict([symbol |-> Str(<<"A">>)]), Dict([breakout_reason |-> Str(<<"a">>)])>>),
     List(<<Str(<<"A">>)>>),
     List(<<Dict([symbol |-> Num(1)])>>),
     Dict([A |-> Num(1)]),
     Dict(<<>>),
     Str(<<>>),
     Str(<<"A">>),
     Num(1),
     Null}

\* what chat.completions.create does: it raises, or answers with a content
\* that is None, no JSON, or the document of a JSON value
LLMOutcomes ==
    {[kind |-> "raise", content |-> NotJson],
     [kind |-> "none", content |-> NotJson],
     [kind |-> "content", content |-> NotJson],
     [kind |-> "content", content |-> json_dumps(List(<<>>))],
     [kind |-> "content", content |-> json_dumps(Dict([analysis_summary |-> Str(<<"a">>)]))]}
    \cup {[kind |-> "content",
           content |-> json_dumps(Dict([breakout_candidates |-> c,
                                        analysis_summary |-> Str(<<"a">>)]))] :
          c \in CandidateValues}

\* the three fixed documents of lines 33, 125 and 137
EmptyAnalysis(summary) ==
    json_dumps(Dict([breakout_candidates |-> List(<<>>),
                     analysis_summary |-> Str(summary)]))

\* "for candidate in ...": the items of a list, the keys of a dict, the
\* characters of a string; anything else raises TypeError
Iterable(value) == value.t \in {"list", "dict", "str"}

RECURSIVE Keys(_)
Keys(names) ==
    IF names = {} THEN <<>>
    ELSE LET k == CHOOSE name \in names : TRUE
         IN  <<Str(<<k>>)>> \o Keys(names \ {k})

Iterate(value) ==
    CASE value.t = "list" -> value.v
      [] value.t = "str" -> [i \in 1..Len(value.v) |-> Str(<<value.v[i]>>)]
      [] value.t = "dict" -> Keys(DOMAIN value.v)

\* lines 113-118 for one candidate: the exception raised, "" for none
CandidateRaises(candidate, reddit_posts) ==
    IF candidate.t = "str" THEN "TypeError"
    ELSE IF candidate.t # "dict" \/ "symbol" \notin DOMAIN candidate.v THEN "KeyError"
    ELSE IF candidate.v.symbol.t # "str" THEN "AttributeError"
    ELSE IF \E i \in 1..Len(reddit_posts) :
               /\ \/ Contains(lower_text(candidate.v.symbol.v),
                              lower_text(reddit_posts[i].headline))
                  \/ Contains(lower_text(candidate.v.symbol.v),
                              lower_text(reddit_posts[i].summary))
               /\ "url" \notin DOMAIN reddit_posts[i]
         THEN "KeyError"
    ELSE ""

\* lines 114-118: the candidate with its source_urls
WithSourceUrls(candidate, reddit_posts) ==
    LET mentioning ==
           SelectSeq(reddit_posts, LAMBDA post :
              \/ Contains(lower_text(candidate.v.symbol.v), lower_text(post.headline))
              \/ Contains(lower_text(candidate.v.symbol.v), lower_text(post.summary)))
    IN  Dict([symbol |-> candidate.v.symbol,
              source_urls |-> List([i \in 1..Len(mentioning) |-> Num(mentioning[i].url)])])

\* stock_analysis_service.py:21-139: the 'analysis' field of the result and
\* whether the LLM was called
analyze_breakout_candidates(reddit_posts, llm) ==
    LET parsed == llm.content.value
        candidates == parsed.v.breakout_candidates
        items == Iterate(candidates)
    IN  IF reddit_posts = <<>>
        THEN [analysis |-> EmptyAnalysis("No posts to analyze"), llm_called |-> FALSE]
        ELSE IF llm.kind \in {"raise", "none"}
        THEN [analysis |-> EmptyAnalysis("Error analyzing posts"), llm_called |-> TRUE]
        ELSE IF ~llm.content.json
        THEN [analysis |-> EmptyAnalysis("Error: Invalid analysis format"),
              llm_called |-> TRUE]
        ELSE IF \/ parsed.t # "dict"
                \/ "breakout_candidates" \notin DOMAIN parsed.v
                \/ ~Iterable(candidates)
                \/ \E i \in 1..Len(items) : CandidateRaises(items[i], reddit_posts) # ""
        THEN [analysis |-> EmptyAnalysis("Error analyzing posts"), llm_called |-> TRUE]
        ELSE [analysis |->
                 json_dumps(Dict([breakout_candidates |->
                                     IF candidates.t = "list"
                                     THEN List([i \in 1..Len(items) |->
                                                  WithSourceUrls(items[i], reddit_posts)])
                                     ELSE candidates,
                                  analysis_summary |-> parsed.v.analysis_summary])),
              llm_called |-> TRUE]

CandidatesCalls ==
    [fn : {"analyze_breakout_candidates"}, pc : {"called"},
     reddit_posts : RedditPostLists, llm : LLMOutcomes,
     ret : {[analysis |-> NotJson, llm_called |-> FALSE]}]

AnalyzeBreakoutCandidates ==
    /\ svc_call.fn = "analyze_breakout_candidates"
    /\ svc_call.pc = "called"
    /\ svc_call' =
          [svc_call EXCEPT
             !.pc = "returned",
             !.ret = analyze_breakout_candidates(svc_call.reddit_posts, svc_call.llm)]
    /\ UNCHANGED <<stocks, router_stocks, reply>>
    /\ UNCHANGED <<gt_vars, fb_vars, an_vars>>

InitCandidates ==
    /\ ExtractIdle /\ BreakoutIdle /\ AnalyzeIdle
    /\ stocks = {}
    /\ router_stocks = {}
    /\ reply = NoReply
    /\ svc_call \in CandidatesCalls

NextCandidates == AnalyzeBreakoutCandidates

SpecCandidates == InitCandidates /\ [][NextCandidates]_vars

(***************************************************************************)
(* Properties of analyze_breakout_candidates                               *)
(***************************************************************************)
\* C26: whatever the posts and whatever the LLM does, the 'analysis' field
\* of the result is a JSON document with a 'breakout_candidates' list; the
\* list is empty when the LLM call raises, answers no JSON, answers JSON
\* without breakout_candidates or names a candidate without a symbol; and
\* for an empty post list the result has no candidates and the LLM is not
\* called.
C26_AnalysisAlwaysHasACandidateList ==
    (svc_call.fn = "analyze_breakout_candidates" /\ svc_call.pc = "returned")
    => LET analysis == svc_call.ret.analysis
           llm == svc_call.llm
           answered == llm.content.value
           failure ==
              \/ llm.kind # "content"
              \/ ~llm.content.json
              \/ answered.t # "dict"
              \/ "breakout_candidates" \notin DOMAIN answered.v
              \/ /\ answered.v.breakout_candidates.t = "list"
                 /\ \E i \in 1..Len(answered.v.breakout_candidates.v) :
                       LET c == answered.v.breakout_candidates.v[i]
                       IN  c.t # "dict" \/ "symbol" \notin DOMAIN c.v
       IN  /\ analysis.json
           /\ analysis.value.t = "dict"
           /\ "breakout_candidates" \in DOMAIN analysis.value.v
           /\ analysis.value.v.breakout_candidates.t = "list"
           /\ (failure \/ svc_call.reddit_posts = <<>>)
              => analysis.value.v.breakout_candidates.v = <<>>
           /\ svc_call.reddit_posts = <<>> => ~svc_call.ret.llm_called

(***************************************************************************)
(* analyze_data (src/analytics/test_engine.py).                            *)
(*                                                                         *)
(* An item carries its tickers and its sentiment; its source and its title *)
(* only reach the "sources" and "reason" fields of a breakout, which are   *)
(* left out.  A sentiment score is the pair of the numerator and the       *)
(* denominator of the quotient of line 45 (0 is 0/1); two quotients of     *)
(* counts this small compare as floats the way they compare as fractions.  *)
(***************************************************************************)
MaxItems == 3       \* items in the data handed to analyze_data

TrendingCap == 5

DataItems ==
    {[tickers |-> <<"A">>, sentiment |-> "positive"],
     [tickers |-> <<"A", "B">>, sentiment |-> "positive"],
     [tickers |-> <<"B">>, sentiment |-> "negative"],
     [tickers |-> <<"B", "B">>, sentiment |-> "neutral"],
     [tickers |-> <<"C", "D", "E", "F">>, sentiment |-> "neutral"],
     [tickers |-> <<"C", "A">>, sentiment |-> "none"],
     [tickers |-> <<>>, sentiment |-> "positive"]}

DataLists == UNION {[1..n -> DataItems] : n \in 0..MaxItems}

\* lines 25-28
all_tickers(data) == Flatten([i \in 1..Len(data) |-> data[i].tickers])

\* Counter(all_tickers)[ticker], line 31
ticker_counts(data, ticker) ==
    Cardinality({i \in 1..Len(all_tickers(data)) : all_tickers(data)[i] = ticker})

\* lines 36-38: the items that mention the ticker and have the sentiment
sentiment_count(data, ticker, sentiment) ==
    Cardinality({i \in 1..Len(data) :
                    ticker \in Range(data[i].tickers) /\ data[i].sentiment = sentiment})

\* line 45
score(data, ticker) ==
    LET positive == sentiment_count(data, ticker, "positive")
        neutral == sentiment_count(data, ticker, "neutral")
        negative == sentiment_count(data, ticker, "negative")
    IN  IF positive + neutral + negative > 0
        THEN [num |-> positive - negative, den |-> positive + neutral + negative]
        ELSE [num |-> 0, den |-> 1]

\* line 55 with "score >= 0.5"
is_breakout_AtLeastHalf(data, ticker) ==
    ticker_counts(data, ticker) >= 2
    /\ 2 * score(data, ticker).num >= score(data, ticker).den

\* line 55: "score > 0.5" is "2 * num > den"
is_breakout(data, ticker) ==
    ticker_counts(data, ticker) >= 2
    /\ 2 * score(data, ticker).num > score(data, ticker).den

\* most_common(5), line 49: by decreasing count, tickers with equal counts in
\* the order of their first mention
most_common(data, n) ==
    LET first == Distinct(all_tickers(data))
    IN  Take(sort_reverse(first, [i \in 1..Len(first) |-> ticker_counts(data, first[i])]),
             n)

\* the key of line 79, compared as Python compares tuples
KeyGreater(x, y) ==
    \/ x.sentiment_score.num * y.sentiment_score.den
          > y.sentiment_score.num * x.sentiment_score.den
    \/ /\ x.sentiment_score.num * y.sentiment_score.den
             = y.sentiment_score.num * x.sentiment_score.den
       /\ x.mentions > y.mentions

KeyEqual(x, y) == ~KeyGreater(x, y) /\ ~KeyGreater(y, x)

\* lines 52-79.  The loop of line 53 goes through the tickers in the order
\* set(all_tickers) happened to yield them at line 35, which Python does not
\* fix: order is the order it reaches the breakouts in.
potential_breakouts(data, order) ==
    LET found == [i \in 1..Len(order) |->
                    [ticker |-> order[i], mentions |-> ticker_counts(data, order[i]),
                     sentiment_score |-> score(data, order[i])]]
        n == Len(found)
        rank(i) == 1 + Cardinality({j \in 1..n :
                          KeyGreater(found[j], found[i])
                          \/ (KeyEqual(found[j], found[i]) /\ j < i)})
    IN  [k \in 1..n |-> found[CHOOSE i \in 1..n : rank(i) = k]]

RECURSIVE Orders(_)
Orders(S) ==
    IF S = {} THEN {<<>>}
    ELSE UNION {{<<t>> \o o : o \in Orders(S \ {t})} : t \in S}

\* test_engine.py:12-91
AnalyzeData ==
    /\ svc_call.fn = "analyze_data"
    /\ svc_call.pc = "called"
    /\ \E order \in Orders({t \in Range(all_tickers(svc_call.data)) :
                              is_breakout(svc_call.data, t)}) :
          svc_call' =
             [svc_call EXCEPT
                !.pc = "returned",
                !.ret = [trending_tickers |-> most_common(svc_call.data, TrendingCap),
                         potential_breakouts |->
                            potential_breakouts(svc_call.data, order)]]
    /\ UNCHANGED <<stocks, router_stocks, reply>>
    /\ UNCHANGED <<gt_vars, fb_vars, an_vars>>

InitData ==
    /\ ExtractIdle /\ BreakoutIdle /\ AnalyzeIdle
    /\ stocks = {}
    /\ router_stocks = {}
    /\ reply = NoReply
    /\ svc_call \in [fn : {"analyze_data"}, pc : {"called"}, data : DataLists,
                     ret : {[trending_tickers |-> <<>>, potential_breakouts |-> <<>>]}]

NextData == AnalyzeData

SpecData == InitData /\ [][NextData]_vars

(***************************************************************************)
(* Properties of analyze_data                                              *)
(***************************************************************************)
\* C27: a ticker is in potential_breakouts exactly when it is mentioned at
\* least twice and (positive - negative) / (positive + neutral + negative)
\* over the items that mention it is above 0.5 (0 when no such item has one
\* of the three sentiments); the list is in non-increasing order of
\* (sentiment score, mentions); trending_tickers holds at most the 5 most
\* mentioned tickers.
C27_BreakoutsAndTrending ==
    (svc_call.fn = "analyze_data" /\ svc_call.pc = "returned")
    => LET data == svc_call.data
           pb == svc_call.ret.potential_breakouts
           tt == svc_call.ret.trending_tickers
           mentioned == UNION {Range(data[i].tickers) : i \in 1..Len(data)}
           mentions(t) ==
              Cardinality({<<i, k>> \in (1..Len(data)) \X (1..4) :
                             k <= Len(data[i].tickers) /\ data[i].tickers[k] = t})
           with(t, sentiment) ==
              Cardinality({i \in 1..Len(data) :
                 (\E k \in 1..Len(data[i].tickers) : data[i].tickers[k] = t)
                 /\ data[i].sentiment = sentiment})
           total(t) == with(t, "positive") + with(t, "neutral") + with(t, "negative")
           above_half(t) ==
              total(t) > 0 /\ 2 * (with(t, "positive") - with(t, "negative")) > total(t)
       IN  /\ {pb[i].ticker : i \in 1..Len(pb)}
                 = {t \in mentioned : mentions(t) >= 2 /\ above_half(t)}
           /\ \A i, j \in 1..Len(pb) : i # j => pb[i].ticker # pb[j].ticker
           /\ \A i \in 1..Len(pb) :
                 /\ pb[i].mentions = mentions(pb[i].ticker)
                 /\ pb[i].sentiment_score.num * total(pb[i].ticker)
                       = (with(pb[i].ticker, "positive") - with(pb[i].ticker, "negative"))
                            * pb[i].sentiment_score.den
           /\ \A i, j \in 1..Len(pb) : i < j => ~KeyGreater(pb[j], pb[i])
           /\ Len(tt) <= 5
           /\ \A i, j \in 1..Len(tt) : i # j => tt[i] # tt[j]
           /\ Range(tt) \subseteq mentioned
           /\ Cardinality(mentioned) <= 5 => Range(tt) = mentioned
           /\ \A t \in Range(tt) : \A u \in mentioned \ Range(tt) :
                 mentions(t) >= mentions(u)

\* six tickers are mentioned, one of them is a breakout, and an item without
\* a known sentiment adds to its mentions
C27_Witness ==
    /\ svc_call.fn = "analyze_data"
    /\ svc_call.pc = "returned"
    /\ Len(svc_call.ret.trending_tickers) = 5
    /\ Cardinality(Range(all_tickers(svc_call.data))) = 6
    /\ Len(svc_call.ret.potential_breakouts) = 1
    /\ svc_call.ret.potential_breakouts[1].ticker = "A"
    /\ \E i \in 1..Len(svc_call.data) : svc_call.data[i].sentiment = "none"

====
